---- MODULE Spec2Model ----
(***************************************************************************)
(* Model of cruzbit's PeerManager (peer_manager.go): the supervisor loop   *)
(* run(), the outbound connector connectToPeers()/connect(), the inbound   *)
(* accept handler, the two lock-guarded connection sets, the address       *)
(* validator parsePeerAddress() and Shutdown().                            *)
(*                                                                         *)
(* Every action is one atomic step of one goroutine: a step holds at most  *)
(* one access to a connection set (under its lock), together with the      *)
(* goroutine-local computation and the calls on the peer store and the     *)
(* channels around it.  fx records the calls of the last step.             *)
(***************************************************************************)
EXTENDS Integers, Sequences, FiniteSets, TLC

(***************************************************************************)
(* Bounds of the model.                                                    *)
(***************************************************************************)
\* MAX_OUTBOUND_PEER_CONNECTIONS / MAX_INBOUND_PEER_CONNECTIONS are package
\* constants declared outside peer_manager.go; the model runs them scaled
\* down, a node accepting more peers than it connects to.
MAX_OUTBOUND_PEER_CONNECTIONS == 2
MAX_INBOUND_PEER_CONNECTIONS == 3
\* peer handles alive at a time
MaxPeers == 3
\* inbound requests served at a time
MaxHandlers == 1
\* capacity of addrChan as modelled (make(chan string, 10000) in the code)
AddrChanCap == 1

(***************************************************************************)
(* Addresses.  A raw address string is the record of its parts: the host   *)
(* text, the separator (":" when the string has one) and the port text.    *)
(* A host is a DNS name or an IP literal (its bytes); a port text is its   *)
(* sequence of characters, digits being the numbers 0..9.                  *)
(***************************************************************************)
NameHost(n) == [kind |-> "name", name |-> n, ip |-> <<>>]
LitHost(b)  == [kind |-> "ip", name |-> "", ip |-> b]
NoHost      == [kind |-> "none", name |-> "", ip |-> <<>>]
Raw(h, p)   == [host |-> h, sep |-> ":", port |-> p]
\* the empty string: no configured peer, no declared address, no external IP
Empty       == [host |-> NoHost, sep |-> "", port |-> <<>>]

IpA    == <<198, 51, 100, 7>>
IpB    == <<203, 0, 113, 9>>
IpSelf == <<203, 0, 113, 5>>
IpPriv == <<10, 1, 2, 3>>
\* IpA in its 16-byte IPv4-in-IPv6 form, as a resolver may return it
IpA16  == <<0, 0, 0, 0, 0, 0, 0, 0, 0, 0, 255, 255, 198, 51, 100, 7>>

PortStr  == <<8, 8, 3, 1>>
PortBig  == <<9, 9, 9, 9, 9, 9>>

AddrA     == Raw(LitHost(IpA), PortStr)
AddrB     == Raw(LitHost(IpB), PortStr)
AddrName  == Raw(NameHost("seed.example"), PortStr)
AddrPriv  == Raw(LitHost(IpPriv), PortStr)
AddrSelf  == Raw(LitHost(IpSelf), PortStr)
AddrBad   == [host |-> NameHost("not-an-address"), sep |-> "", port |-> <<>>]
AddrPort  == Raw(LitHost(IpB), PortBig)

(***************************************************************************)
(* parsePeerAddress and the library calls it makes.                        *)
(***************************************************************************)
\* net.SplitHostPort: fails on a string without the host:port separator
SplitHostPort(addr) ==
    IF addr.sep = ":" /\ addr.host.kind # "none"
    THEN [err |-> FALSE, host |-> addr.host, port |-> addr.port]
    ELSE [err |-> TRUE, host |-> NoHost, port |-> <<>>]

RECURSIVE DigitsValue(_)
DigitsValue(d) ==
    IF d = <<>> THEN 0 ELSE 10 * DigitsValue(SubSeq(d, 1, Len(d) - 1)) + d[Len(d)]

\* strconv.ParseUint(port, 10, 16): digits only, non-empty, below 2^16
ParseUint16(port) ==
    IF port # <<>> /\ (\A i \in 1..Len(port) : port[i] \in 0..9)
          /\ Len(port) <= 8 /\ DigitsValue(port) < 65536
    THEN [err |-> FALSE, val |-> DigitsValue(port)]
    ELSE [err |-> TRUE, val |-> 0]

\* net.IP.To4: the 4-byte form of an IPv4 or IPv4-in-IPv6 address, <<>> if none
To4(ip) ==
    IF Len(ip) = 4 THEN ip
    ELSE IF Len(ip) = 16 /\ (\A i \in 1..10 : ip[i] = 0) /\ ip[11] = 255 /\ ip[12] = 255
         THEN SubSeq(ip, 13, 16)
         ELSE <<>>

\* net.IP.String: the canonical text of an IP, one text per address
IPString(ip) == IF To4(ip) # <<>> THEN To4(ip) ELSE ip

Pow2(n) == CASE n = 0 -> 1 [] n = 1 -> 2 [] n = 2 -> 4 [] n = 3 -> 8 [] n = 4 -> 16
             [] n = 5 -> 32 [] n = 6 -> 64 [] n = 7 -> 128 [] OTHER -> 256

\* the byte b with all but its leading `bits` bits cleared
MaskByte(b, bits) == (b \div Pow2(8 - bits)) * Pow2(8 - bits)

BitsAt(prefix, i) ==
    IF prefix >= 8 * i THEN 8 ELSE IF prefix <= 8 * (i - 1) THEN 0 ELSE prefix - 8 * (i - 1)

\* net.IPNet.Contains
Contains(block, ip) ==
    LET x == IF To4(ip) # <<>> THEN To4(ip) ELSE ip
    IN  /\ Len(x) = Len(block.ip)
        /\ \A i \in 1..Len(x) :
              MaskByte(x[i], BitsAt(block.prefix, i)) = MaskByte(block.ip[i], BitsAt(block.prefix, i))

Zero16 == [i \in 1..16 |-> 0]

\* privateIPBlocks with 172.16.0.0/16 in place of 172.16.0.0/12
privateIPBlocks16 ==
    << [ip |-> <<127, 0, 0, 0>>, prefix |-> 8],
       [ip |-> <<10, 0, 0, 0>>, prefix |-> 8],
       [ip |-> <<172, 16, 0, 0>>, prefix |-> 16],
       [ip |-> <<192, 168, 0, 0>>, prefix |-> 16],
       [ip |-> [Zero16 EXCEPT ![16] = 1], prefix |-> 128],
       [ip |-> [Zero16 EXCEPT ![1] = 254, ![2] = 128], prefix |-> 10],
       [ip |-> [Zero16 EXCEPT ![1] = 252], prefix |-> 7] >>

privateIPBlocks ==
    << [ip |-> <<127, 0, 0, 0>>, prefix |-> 8],
       [ip |-> <<10, 0, 0, 0>>, prefix |-> 8],
       [ip |-> <<172, 16, 0, 0>>, prefix |-> 12],
       [ip |-> <<192, 168, 0, 0>>, prefix |-> 16],
       [ip |-> [Zero16 EXCEPT ![16] = 1], prefix |-> 128],
       [ip |-> [Zero16 EXCEPT ![1] = 254, ![2] = 128], prefix |-> 10],
       [ip |-> [Zero16 EXCEPT ![1] = 252], prefix |-> 7] >>

\* The answers net.LookupIP can give for a host: an IP literal is returned as
\* it is; a name is answered by the resolver, with an error or with a list.
LookupAnswers(host) ==
    IF host.kind = "ip" THEN { [err |-> FALSE, ips |-> <<host.ip>>] }
    ELSE IF host.name = "seed.example"
         THEN { [err |-> TRUE, ips |-> <<>>],
                [err |-> FALSE, ips |-> <<>>],
                [err |-> FALSE, ips |-> <<IpA16, IpPriv>>] }
         ELSE IF host.name = "multi.example"
         THEN { [err |-> FALSE, ips |-> <<IpPriv, IpB>>] }
         ELSE { [err |-> TRUE, ips |-> <<>>] }

ParseFail(why) == [err |-> why, host |-> <<>>, port |-> <<>>]

\* parsePeerAddress returning the first IP as resolved, not as its text
parsePeerAddressRawIP(addr, look, myIP, port) ==
    LET sp == SplitHostPort(addr)
        pu == ParseUint16(sp.port)
    IN  IF sp.err THEN ParseFail("malformed")
        ELSE IF pu.err THEN ParseFail("port")
        ELSE IF look.err THEN ParseFail("resolve")
        ELSE IF Len(look.ips) = 0 THEN ParseFail("noip")
        ELSE IF myIP = IPString(look.ips[1]) /\ port = pu.val THEN ParseFail("ours")
        ELSE IF \E k \in 1..Len(privateIPBlocks) : Contains(privateIPBlocks[k], look.ips[1])
             THEN ParseFail("local")
        ELSE [err |-> "", host |-> look.ips[1], port |-> sp.port]

\* parsePeerAddress with the test of line 494 on the IP alone
parsePeerAddressAnyPort(addr, look, myIP, port) ==
    LET sp == SplitHostPort(addr)
        pu == ParseUint16(sp.port)
    IN  IF sp.err THEN ParseFail("malformed")
        ELSE IF pu.err THEN ParseFail("port")
        ELSE IF look.err THEN ParseFail("resolve")
        ELSE IF Len(look.ips) = 0 THEN ParseFail("noip")
        ELSE IF myIP = IPString(look.ips[1]) THEN ParseFail("ours")
        ELSE IF \E k \in 1..Len(privateIPBlocks) : Contains(privateIPBlocks[k], look.ips[1])
             THEN ParseFail("local")
        ELSE [err |-> "", host |-> IPString(look.ips[1]), port |-> sp.port]

\* parsePeerAddress(addr) for the resolver's answer `look`, with the node's
\* external IP text myIP (<<>> when empty) and its listen port
parsePeerAddress(addr, look, myIP, port) ==
    LET sp == SplitHostPort(addr)
        pu == ParseUint16(sp.port)
    IN  IF sp.err THEN ParseFail("malformed")
        ELSE IF pu.err THEN ParseFail("port")
        ELSE IF look.err THEN ParseFail("resolve")
        ELSE IF Len(look.ips) = 0 THEN ParseFail("noip")
        ELSE IF myIP = IPString(look.ips[1]) /\ port = pu.val THEN ParseFail("ours")
        ELSE IF \E k \in 1..Len(privateIPBlocks) : Contains(privateIPBlocks[k], look.ips[1])
             THEN ParseFail("local")
        ELSE [err |-> "", host |-> IPString(look.ips[1]), port |-> sp.port]

\* host + ":" + port of a successful parse
ResolvedAddr(res) == Raw(LitHost(res.host), res.port)

(***************************************************************************)
(* The environment's inputs.                                               *)
(***************************************************************************)
ListenPort == 8831

\* ephemeral remote sockets of inbound connections (r.RemoteAddr)
Remote1 == Raw(LitHost(IpA), <<5, 0, 0, 0, 1>>)
Remote2 == Raw(LitHost(IpB), <<5, 0, 0, 0, 2>>)
Remote3 == Raw(LitHost(IpB), <<5, 0, 0, 0, 3>>)
Remote4 == Raw(LitHost(IpA), <<5, 0, 0, 0, 4>>)
Remotes == <<Remote1, Remote2, Remote3, Remote4>>

\* addresses the discovery sources (DNS, IRC, gossip) may push
GossipAddrs == {AddrB, AddrBad}
\* Cruzbit-Peer-Address header values
DeclaredAddrs == {Empty, AddrA, AddrBad}
Requests == [nonce : {"ours", "theirs"}, addr : DeclaredAddrs]

\* answers of dnsQueryForPeers
DnsAnswers ==
    { [err |-> TRUE, addrs |-> <<>>],
      [err |-> FALSE, addrs |-> <<>>],
      [err |-> FALSE, addrs |-> <<AddrName>>] }

\* answers of determineExternalIP
ExternalIPAnswers == { [err |-> TRUE, ip |-> <<>>], [err |-> FALSE, ip |-> IpSelf] }
\* what net.Interfaces and Addrs show to haveLocalIPMatch
InterfaceAnswers ==
    { [err |-> TRUE, ips |-> {}],
      [err |-> FALSE, ips |-> {IpPriv}],
      [err |-> FALSE, ips |-> {IpPriv, IpSelf}] }

\* The runs explored: the constructor's parameters, what the host's network
\* answers at startup (ext: determineExternalIP, ifaces: the interfaces
\* haveLocalIPMatch reads, dns: dnsQueryForPeers), the clients that connect to the node during
\* the run (remotes: how many remote sockets; declared: the address headers
\* they send; handles: how many peer handles are alive at a time).  Every parameter takes each of its values; the closed nodes of
\* the last line meet every answer; the node of the third line, without a
\* discovery source that answers, meets more clients than its inbound set
\* admits.
Configs ==
    { [peer |-> Empty, accept |-> TRUE, irc |-> TRUE, myExternalIP |-> IpSelf,
       remotes |-> 1, declared |-> DeclaredAddrs, handles |-> MaxPeers,
       dns |-> DnsAnswers,
       ext |-> [err |-> FALSE, ip |-> IpSelf], ifaces |-> [err |-> FALSE, ips |-> {IpPriv}]],
      [peer |-> AddrName, accept |-> TRUE, irc |-> FALSE, myExternalIP |-> <<>>,
       remotes |-> 1, declared |-> DeclaredAddrs, handles |-> MaxPeers,
       dns |-> DnsAnswers,
       ext |-> [err |-> TRUE, ip |-> <<>>], ifaces |-> [err |-> TRUE, ips |-> {}]],
      [peer |-> Empty, accept |-> TRUE, irc |-> FALSE, myExternalIP |-> <<>>,
       remotes |-> Len(Remotes), declared |-> {Empty},
       handles |-> MAX_INBOUND_PEER_CONNECTIONS + 1,
       dns |-> { a \in DnsAnswers : a.err },
       ext |-> [err |-> TRUE, ip |-> <<>>], ifaces |-> [err |-> TRUE, ips |-> {}]] }
    \cup { [peer |-> Empty, accept |-> FALSE, irc |-> FALSE, myExternalIP |-> m,
            remotes |-> 0, declared |-> {}, handles |-> MaxPeers,
            dns |-> DnsAnswers, ext |-> e, ifaces |-> i] :
            m \in {<<>>, IpB}, e \in ExternalIPAnswers, i \in InterfaceAnswers }

(***************************************************************************)
(* Inputs of the address validator: what a discovery source may send.      *)
(***************************************************************************)
\* the IPv6 address a:b::c, by its first two bytes and its last
Ip6(a, b, c) == [Zero16 EXCEPT ![1] = a, ![2] = b, ![16] = c]
\* ip in its 16-byte IPv4-in-IPv6 form
Ip4In6(ip) == [i \in 1..16 |-> IF i <= 10 THEN 0 ELSE IF i <= 12 THEN 255 ELSE ip[i - 12]]

ValidatorIPs ==
    { IpB, IpSelf, Ip4In6(IpSelf), IpPriv, Ip4In6(IpPriv),
      <<127, 0, 0, 1>>, <<128, 0, 0, 1>>, <<11, 0, 0, 1>>,
      <<172, 16, 0, 1>>, <<172, 31, 255, 255>>, <<172, 32, 0, 1>>, <<172, 15, 0, 1>>,
      <<192, 168, 1, 1>>, <<192, 169, 1, 1>>,
      Ip6(0, 0, 1), Ip6(0, 0, 2), Ip6(32, 1, 1),
      Ip6(254, 128, 1), Ip6(254, 191, 1), Ip6(254, 192, 1), Ip6(254, 127, 1),
      Ip6(252, 0, 1), Ip6(253, 0, 1), Ip6(254, 0, 1), Ip6(251, 0, 1) }

ValidatorPorts ==
    { PortStr, <<8, 8, 3, 2>>, <<0, 8, 8, 3, 1>>, <<0>>, <<6, 5, 5, 3, 5>>,
      <<6, 5, 5, 3, 6>>, PortBig, <<>> }

\* every IP literal with the listen port, the node's and its neighbours' IPs
\* with every port text, names, and a string that is no host:port
ValidatorInputs ==
    { Raw(LitHost(ip), PortStr) : ip \in ValidatorIPs }
    \cup { Raw(LitHost(ip), po) : ip \in {IpB, IpSelf, Ip4In6(IpSelf)}, po \in ValidatorPorts }
    \cup { AddrName, AddrBad, Raw(NameHost("multi.example"), PortStr),
           Raw(NameHost("nowhere.example"), PortStr),
           Raw(NameHost("seed.example"), PortBig) }

\* the nodes that validate them: discovery mode, not accepting, with the
\* external IP unknown, pre-configured only, or detected
ValidatorConfigs ==
    { c \in Configs : c.peer = Empty /\ ~c.accept /\ c.ifaces.err /\ (c.ext.err \/ c.myExternalIP = <<>>) }

(***************************************************************************)
(* State.                                                                  *)
(***************************************************************************)
VARIABLES
    cfg,          \* constructor parameters (peer, accept, irc, myExternalIP), the
                  \* answers of the host's network (ext, ifaces, dns) and the
                  \* clients of the run (remotes, declared, handles)
    myIP,         \* p.myIP, <<>> when empty
    open,         \* p.open
    outPeers,     \* p.outPeers: address -> peer handle
    inPeers,      \* p.inPeers: remote socket -> peer handle
    addrChan,     \* p.addrChan
    shutdownChan, \* p.shutdownChan: "open" or "closed"
    store,        \* the addresses held by p.peerStore
    peers,        \* the peer handles created so far, by handle number
    sup,          \* the goroutine of run()
    lis,          \* the goroutine of acceptConnections()
    srv,          \* p.server: "new", "listening" or "shutdown"
    irc,          \* the IRC client: "none", "running" or "stopped"
    handlers,     \* the goroutines of peerHandler, one per request: position,
                  \* remote socket, peer handle and theirAddress
    caller,       \* the goroutine that calls Shutdown()
    fx            \* the collaborator calls made by the last step

vars == <<cfg, myIP, open, outPeers, inPeers, addrChan, shutdownChan, store,
          peers, sup, lis, srv, irc, handlers, caller, fx>>

EmptyMap == [k \in {} |-> 0]

\* a handle number not in use: no handle, or one that has ended
NoPeer == [st |-> "closed", dir |-> "", cb |-> FALSE, key |-> Empty]

\* a handler goroutine that has returned, or was never started
Returned == [pc |-> "done", remote |-> Empty, peer |-> 0, their |-> Empty]
\* a collaborator call: its name, its address argument, the myAddress
\* argument of Peer.Connect, the nonce header of a request
Fx(op, a) == [op |-> op, addr |-> a, my |-> Empty, nonce |-> ""]

SupAt(pc) == [sup EXCEPT !.pc = pc]

Init ==
    /\ cfg \in Configs
    /\ myIP = cfg.myExternalIP
    /\ open = FALSE
    /\ outPeers = EmptyMap
    /\ inPeers = EmptyMap
    /\ addrChan = <<>>
    /\ shutdownChan = "open"
    /\ store = {}
    /\ peers = [h \in 1..cfg.handles |-> NoPeer]
    /\ sup = [pc |-> "idle", running |-> FALSE, addrs |-> {},
              addr |-> Empty, peer |-> 0, dns |-> <<>>]
    /\ lis = "none"
    /\ srv = "new"
    /\ irc = "none"
    /\ handlers = [i \in 1..MaxHandlers |-> Returned]
    /\ caller = [pc |-> "none", peers |-> {}]
    /\ fx = <<>>

(***************************************************************************)
(* The connection sets (lines 253-263, 414-470).  Each operator is one     *)
(* critical section under the set's lock.                                  *)
(***************************************************************************)
outboundPeerCount(set) == Cardinality(DOMAIN set)
inboundPeerCount(set) == Cardinality(DOMAIN set)

\* addToOutboundSet without its presence check: the entry is overwritten
addToOutboundSetOverwrite(set, addr, peer) ==
    IF Cardinality(DOMAIN set) = MAX_OUTBOUND_PEER_CONNECTIONS THEN [ok |-> FALSE, set |-> set]
    ELSE [ok |-> TRUE, set |-> (addr :> peer) @@ set]

addToOutboundSet(set, addr, peer) ==
    IF Cardinality(DOMAIN set) = MAX_OUTBOUND_PEER_CONNECTIONS THEN [ok |-> FALSE, set |-> set]
    ELSE IF addr \in DOMAIN set THEN [ok |-> FALSE, set |-> set]
    ELSE [ok |-> TRUE, set |-> (addr :> peer) @@ set]

\* addToInboundSet without its presence check: the entry is overwritten
addToInboundSetOverwrite(set, addr, peer) ==
    IF Cardinality(DOMAIN set) = MAX_INBOUND_PEER_CONNECTIONS THEN [ok |-> FALSE, set |-> set]
    ELSE [ok |-> TRUE, set |-> (addr :> peer) @@ set]

\* addToInboundSet that turns a handle away one entry late
addToInboundSetOneMore(set, addr, peer) ==
    IF Cardinality(DOMAIN set) = MAX_INBOUND_PEER_CONNECTIONS + 1 THEN [ok |-> FALSE, set |-> set]
    ELSE IF addr \in DOMAIN set THEN [ok |-> FALSE, set |-> set]
    ELSE [ok |-> TRUE, set |-> (addr :> peer) @@ set]

\* addToInboundSet without its capacity check
addToInboundSetUncapped(set, addr, peer) ==
    IF addr \in DOMAIN set THEN [ok |-> FALSE, set |-> set]
    ELSE [ok |-> TRUE, set |-> (addr :> peer) @@ set]

addToInboundSet(set, addr, peer) ==
    IF Cardinality(DOMAIN set) = MAX_INBOUND_PEER_CONNECTIONS THEN [ok |-> FALSE, set |-> set]
    ELSE IF addr \in DOMAIN set THEN [ok |-> FALSE, set |-> set]
    ELSE [ok |-> TRUE, set |-> (addr :> peer) @@ set]

existsInOutboundSet(set, addr) == addr \in DOMAIN set

\* removeFromOutboundSet that deletes every entry
removeFromOutboundSetAll(set, addr) == [k \in {} |-> 0]

\* removeFromOutboundSet that deletes nothing
removeFromOutboundSetNothing(set, addr) == set

removeFromOutboundSet(set, addr) == [k \in DOMAIN set \ {addr} |-> set[k]]

removeFromInboundSet(set, addr) == [k \in DOMAIN set \ {addr} |-> set[k]]

(***************************************************************************)
(* The Peer collaborator (peer.go, not part of this file), from its        *)
(* interface: NewPeer, Connect, OnClose, Run, Shutdown.  A handle is       *)
(*   "new"      constructed, its goroutine not started                     *)
(*   "shut"     shut down before Run was called                            *)
(*   "running"  handed off by Run                                          *)
(*   "closing"  its connection has ended, the close callback is due        *)
(*   "closed"   its close callback, if any, has run                        *)
(***************************************************************************)
\* dir: "out" for a handle made by connect(), "in" for one made by peerHandler
NewPeer(dir) == [st |-> "new", dir |-> dir, cb |-> FALSE, key |-> Empty]

\* a handle that has ended; nothing reads its fields any more
EndedPeer(p) == NoPeer

PeerOnClose(p, key) == [p EXCEPT !.cb = TRUE, !.key = key]

\* Run starts the handle's goroutine; on a connection that is already closed
\* it ends at once
PeerRun(p) == [p EXCEPT !.st = IF p.st = "shut" THEN "closing" ELSE "running"]


\* the close callback registered with OnClose, applied to the two sets
CallbackOut(p, set) == IF p.cb /\ p.dir = "out" THEN removeFromOutboundSet(set, p.key) ELSE set
CallbackIn(p, set)  == IF p.cb /\ p.dir = "in" THEN removeFromInboundSet(set, p.key) ELSE set

\* the handle numbers something still refers to
Referenced ==
    { outPeers[k] : k \in DOMAIN outPeers } \cup { inPeers[k] : k \in DOMAIN inPeers }
    \cup caller.peers \cup { handlers[i].peer : i \in DOMAIN handlers } \cup {sup.peer}

FreePeers == { h \in DOMAIN peers : peers[h].st = "closed" /\ h \notin Referenced }

\* the number NewPeer's handle gets: the first that is free
NextPeer ==
    IF FreePeers = {} THEN 0 ELSE CHOOSE h \in FreePeers : \A g \in FreePeers : h <= g

(***************************************************************************)
(* run(): startup (lines 108-174).                                         *)
(***************************************************************************)
\* Run() (lines 103-106)
Run ==
    /\ sup.pc = "idle"
    /\ sup' = SupAt("detect")
    /\ fx' = <<>>
    /\ UNCHANGED <<cfg, myIP, open, outPeers, inPeers, addrChan, shutdownChan, store,
                   peers, lis, srv, irc, handlers, caller>>

\* haveLocalIPMatch(externalIP) on what the interfaces show (lines 510-534)
haveLocalIPMatch(externalIP, ifaces) ==
    IF ifaces.err THEN [ok |-> FALSE, err |-> TRUE]
    ELSE [ok |-> \E ip \in ifaces.ips : IPString(ip) = externalIP, err |-> FALSE]

\* the open flag set from the interfaces alone, a configured IP ignored
DetectOpenLocalOnly(ext, ifaces) ==
    IF ext.err THEN open
    ELSE haveLocalIPMatch(IPString(ext.ip), ifaces).ok

\* the open flag after the external IP query answered ext (lines 112-128)
DetectOpen(ext, ifaces) ==
    IF ext.err THEN open
    ELSE IF myIP # <<>> THEN IPString(ext.ip) = myIP
    ELSE haveLocalIPMatch(IPString(ext.ip), ifaces).ok

\* lines 111-128
DetermineExternalIP ==
    /\ sup.pc = "detect"
    /\ open' = DetectOpen(cfg.ext, cfg.ifaces)
    /\ myIP' = IF cfg.ext.err THEN myIP ELSE IPString(cfg.ext.ip)
    /\ sup' = SupAt("seed")
    /\ fx' = <<>>
    /\ UNCHANGED <<cfg, outPeers, inPeers, addrChan, shutdownChan, store,
                   peers, lis, srv, irc, handlers, caller>>

\* lines 131-135: store the explicitly specified outbound peer
StoreExplicitPeer ==
    /\ sup.pc = "seed"
    /\ cfg.peer # Empty
    /\ \E failed \in BOOLEAN :
          /\ store' = IF failed THEN store ELSE store \cup {cfg.peer}
          /\ fx' = <<Fx(IF failed THEN "StoreErr" ELSE "Store", cfg.peer)>>
    /\ sup' = SupAt("accept")
    /\ UNCHANGED <<cfg, myIP, open, outPeers, inPeers, addrChan, shutdownChan,
                   peers, lis, srv, irc, handlers, caller>>

\* lines 137-156: IRC seeding, then the DNS seed query
Seed ==
    /\ sup.pc = "seed"
    /\ cfg.peer = Empty
    /\ \E ircFailed \in BOOLEAN, dns \in cfg.dns :
          /\ irc' = IF cfg.irc /\ ~ircFailed THEN "running" ELSE irc
          /\ sup' = [sup EXCEPT !.pc = "dns", !.dns = IF dns.err THEN <<>> ELSE dns.addrs]
    /\ fx' = <<>>
    /\ UNCHANGED <<cfg, myIP, open, outPeers, inPeers, addrChan, shutdownChan, store,
                   peers, lis, srv, handlers, caller>>

\* lines 157-160: p.addrChan <- addr, blocking while the channel is full
DnsPush ==
    /\ sup.pc = "dns"
    /\ sup.dns # <<>>
    /\ Len(addrChan) < AddrChanCap
    /\ addrChan' = Append(addrChan, Head(sup.dns))
    /\ sup' = [sup EXCEPT !.dns = Tail(sup.dns)]
    /\ fx' = <<>>
    /\ UNCHANGED <<cfg, myIP, open, outPeers, inPeers, shutdownChan, store,
                   peers, lis, srv, irc, handlers, caller>>

DnsDone ==
    /\ sup.pc = "dns"
    /\ sup.dns = <<>>
    /\ sup' = SupAt("accept")
    /\ fx' = <<>>
    /\ UNCHANGED <<cfg, myIP, open, outPeers, inPeers, addrChan, shutdownChan, store,
                   peers, lis, srv, irc, handlers, caller>>

(***************************************************************************)
(* connectToPeers() and connect() (lines 265-329), run by the goroutine of *)
(* run() only.                                                             *)
(***************************************************************************)
\* connectToPeers returns to the main loop
Return ==
    [sup EXCEPT !.pc = "loop", !.running = TRUE, !.addrs = {}, !.addr = Empty, !.peer = 0]

\* connect(addr) has returned: on to the next address, or back to the loop
Connected(rest) ==
    IF rest = {} THEN Return
    ELSE [sup EXCEPT !.pc = "next", !.addrs = rest, !.addr = Empty, !.peer = 0]

\* the value connectToPeers returns, recorded with the calls of the step
\* that returns
Returns(rest, err) == IF rest = {} THEN <<Fx(err, Empty)>> ELSE <<>>

\* want of line 284
Want(set) == MAX_OUTBOUND_PEER_CONNECTIONS - outboundPeerCount(set)

\* what p.peerStore.Get(want) may answer on the stored addresses st: an
\* error, or up to want of them
GetAnswers(st, want) ==
    { [err |-> TRUE, addrs |-> {}] }
    \cup { [err |-> FALSE, addrs |-> S] : S \in { T \in SUBSET st : Cardinality(T) <= want } }

\* connectToPeers with the test of line 285 off by one (want < 0)
CtpEnterOffByOne(set, ans) ==
    IF cfg.peer # Empty
    THEN IF outboundPeerCount(set) # 0 THEN [sup |-> Return, fx |-> Returns({}, "nil")]
         ELSE [sup |-> Connected({cfg.peer}), fx |-> <<>>]
    ELSE IF Want(set) < 0 THEN [sup |-> Return, fx |-> Returns({}, "nil")]
         ELSE IF ans.err THEN [sup |-> Return, fx |-> <<Fx("GetErr", Empty)>> \o Returns({}, "err")]
         ELSE [sup |-> Connected(ans.addrs),
               fx |-> <<Fx("Get", Empty)>> \o Returns(ans.addrs, "nil")]

\* connectToPeers without the explicit-peer branch of lines 267-281
CtpEnterDiscoveryOnly(set, ans) ==
    IF Want(set) <= 0 THEN [sup |-> Return, fx |-> Returns({}, "nil")]
    ELSE IF ans.err THEN [sup |-> Return, fx |-> <<Fx("GetErr", Empty)>> \o Returns({}, "err")]
    ELSE [sup |-> Connected(ans.addrs),
          fx |-> <<Fx("Get", Empty)>> \o Returns(ans.addrs, "nil")]

\* lines 267-291: connectToPeers up to its first connect(), for the answer
\* ans of the peer store: the goroutine's next position and the calls made
CtpEnter(set, ans) ==
    IF cfg.peer # Empty
    THEN IF outboundPeerCount(set) # 0 THEN [sup |-> Return, fx |-> Returns({}, "nil")]
         ELSE [sup |-> Connected({cfg.peer}), fx |-> <<>>]
    ELSE IF Want(set) <= 0 THEN [sup |-> Return, fx |-> Returns({}, "nil")]
         ELSE IF ans.err THEN [sup |-> Return, fx |-> <<Fx("GetErr", Empty)>> \o Returns({}, "err")]
         ELSE [sup |-> Connected(ans.addrs),
               fx |-> <<Fx("Get", Empty)>> \o Returns(ans.addrs, "nil")]

\* a call of connectToPeers() after the calls pre, with st in the peer store
ConnectToPeers(pre, st) ==
    \E ans \in GetAnswers(st, Want(outPeers)) :
       /\ sup' = CtpEnter(outPeers, ans).sup
       /\ fx' = pre \o CtpEnter(outPeers, ans).fx

\* lines 164-174: dispatch acceptConnections, then the first connectToPeers
StartAccept ==
    /\ sup.pc = "accept"
    /\ lis' = IF cfg.accept THEN "cert" ELSE lis
    /\ ConnectToPeers(<<>>, store)
    /\ UNCHANGED <<cfg, myIP, open, outPeers, inPeers, addrChan, shutdownChan, store,
                   peers, srv, irc, handlers, caller>>

\* what connectToPeers returns after connect(addr) failed (lines 275-278, 294-300)
ConnectErr == IF cfg.peer # Empty THEN "err" ELSE "nil"

\* lines 292-294, 305-309: take the next address, construct a handle, admit it
ConnectAdmit ==
    /\ sup.pc = "next"
    /\ \E addr \in sup.addrs :
          LET r == addToOutboundSet(outPeers, addr, NextPeer)
          IN  /\ r.ok => FreePeers # {}
              /\ outPeers' = r.set
              /\ IF r.ok
                 THEN /\ peers' = [peers EXCEPT ![NextPeer] = NewPeer("out")]
                      /\ sup' = [sup EXCEPT !.pc = "handshake", !.addr = addr, !.peer = NextPeer]
                      /\ fx' = <<Fx("NewPeer", addr)>>
                 ELSE /\ peers' = peers
                      /\ sup' = Connected(sup.addrs \ {addr})
                      /\ fx' = <<Fx("NewPeer", addr), Fx("TooMany", addr)>>
                                 \o Returns(sup.addrs \ {addr}, ConnectErr)
    /\ UNCHANGED <<cfg, myIP, open, inPeers, addrChan, shutdownChan, store,
                   lis, srv, irc, handlers, caller>>

RECURSIVE Itoa(_)
\* strconv.Itoa of a number >= 0
Itoa(n) == IF n < 10 THEN <<n>> ELSE Append(Itoa(n \div 10), n % 10)

\* myAddress set whether or not the node is open
MyAddressAlways == Raw(LitHost(myIP), Itoa(ListenPort))

\* myAddress of lines 311-315
MyAddress == IF open THEN Raw(LitHost(myIP), Itoa(ListenPort)) ELSE Empty

\* lines 317-328: the handshake and what follows it
ConnectHandshake ==
    /\ sup.pc = "handshake"
    /\ \E failed \in BOOLEAN :
          IF failed
          THEN /\ outPeers' = removeFromOutboundSet(outPeers, sup.addr)
               /\ peers' = [peers EXCEPT ![sup.peer] = EndedPeer(@)]
               /\ sup' = Connected(sup.addrs \ {sup.addr})
               /\ fx' = <<[Fx("ConnectErr", sup.addr) EXCEPT !.my = MyAddress]>>
                          \o Returns(sup.addrs \ {sup.addr}, ConnectErr)
          ELSE /\ outPeers' = outPeers
               /\ peers' = [peers EXCEPT ![sup.peer] = PeerRun(PeerOnClose(@, sup.addr))]
               /\ sup' = Connected(sup.addrs \ {sup.addr})
               /\ fx' = <<[Fx("Connect", sup.addr) EXCEPT !.my = MyAddress],
                          Fx("Run", sup.addr)>> \o Returns(sup.addrs \ {sup.addr}, "nil")
    /\ UNCHANGED <<cfg, myIP, open, inPeers, addrChan, shutdownChan, store,
                   lis, srv, irc, handlers, caller>>

(***************************************************************************)
(* run(): the main loop (lines 181-222).                                   *)
(***************************************************************************)
\* the intake case without the continue of line 190: an address that fails
\* validation is stored as received and connectToPeers is called
DiscoveredNoContinue ==
    /\ sup.pc = "loop"
    /\ addrChan # <<>>
    /\ addrChan' = Tail(addrChan)
    /\ \E look \in LookupAnswers(SplitHostPort(Head(addrChan)).host), failed \in BOOLEAN :
          LET res == parsePeerAddress(Head(addrChan), look, myIP, ListenPort)
              resolvedAddr == IF res.err # "" THEN Head(addrChan) ELSE ResolvedAddr(res)
          IN  IF failed
              THEN /\ store' = store
                   /\ sup' = sup
                   /\ fx' = <<Fx("StoreErr", resolvedAddr)>>
              ELSE /\ store' = store \cup {resolvedAddr}
                   /\ ConnectToPeers(<<Fx("Store", resolvedAddr)>>,
                                     store \cup {resolvedAddr})
    /\ UNCHANGED <<cfg, myIP, open, outPeers, inPeers, shutdownChan,
                   peers, lis, srv, irc, handlers, caller>>

\* lines 183-202: an address from the channel is parsed and stored, then
\* connectToPeers is called
Discovered ==
    /\ sup.pc = "loop"
    /\ addrChan # <<>>
    /\ addrChan' = Tail(addrChan)
    /\ \E look \in LookupAnswers(SplitHostPort(Head(addrChan)).host), failed \in BOOLEAN :
          LET res == parsePeerAddress(Head(addrChan), look, myIP, ListenPort)
          IN  IF res.err # ""
              THEN /\ store' = store
                   /\ sup' = sup
                   /\ fx' = <<Fx("Invalid", Head(addrChan))>>
              ELSE IF failed
              THEN /\ store' = store
                   /\ sup' = sup
                   /\ fx' = <<Fx("StoreErr", ResolvedAddr(res))>>
              ELSE /\ store' = store \cup {ResolvedAddr(res)}
                   /\ ConnectToPeers(<<Fx("Store", ResolvedAddr(res))>>,
                                     store \cup {ResolvedAddr(res)})
    /\ UNCHANGED <<cfg, myIP, open, outPeers, inPeers, shutdownChan,
                   peers, lis, srv, irc, handlers, caller>>

\* lines 204-206
Tick ==
    /\ sup.pc = "loop"
    /\ ConnectToPeers(<<>>, store)
    /\ UNCHANGED <<cfg, myIP, open, outPeers, inPeers, addrChan, shutdownChan, store,
                   peers, lis, srv, irc, handlers, caller>>

\* the shutdown case taken whether or not the channel is closed
ShutdownSignalUnguarded ==
    /\ sup.pc = "loop"
    /\ irc' = IF irc = "running" THEN "stopped" ELSE irc
    /\ srv' = "shutdown"
    /\ sup' = SupAt("drain")
    /\ fx' = <<>>
    /\ UNCHANGED <<cfg, myIP, open, outPeers, inPeers, addrChan, shutdownChan, store,
                   peers, lis, handlers, caller>>

\* lines 208-218: the shutdown channel is closed; IRC is shut down and
\* http.Server.Shutdown closes the listener
ShutdownSignal ==
    /\ sup.pc = "loop"
    /\ shutdownChan = "closed"
    /\ irc' = IF irc = "running" THEN "stopped" ELSE irc
    /\ srv' = "shutdown"
    /\ sup' = SupAt("drain")
    /\ fx' = <<>>
    /\ UNCHANGED <<cfg, myIP, open, outPeers, inPeers, addrChan, shutdownChan, store,
                   peers, lis, handlers, caller>>

\* http.Server.Shutdown returns once no connection is active: it waits for
\* the requests being served, not for hijacked (upgraded) connections
Hijacked(h) == h.pc \in {"admit", "run", "done"}

\* lines 218-219
ServerDrained ==
    /\ sup.pc = "drain"
    /\ \A i \in DOMAIN handlers : Hijacked(handlers[i])
    /\ sup' = SupAt("done")
    /\ fx' = <<>>
    /\ UNCHANGED <<cfg, myIP, open, outPeers, inPeers, addrChan, shutdownChan, store,
                   peers, lis, srv, irc, handlers, caller>>

(***************************************************************************)
(* acceptConnections() (lines 331-412): the listener goroutine and the     *)
(* handler goroutines the HTTP server starts, one per request.             *)
(***************************************************************************)
\* lines 397-411: generateSelfSignedCertAndKey, then ListenAndServeTLS,
\* which fails (bind error, server already shut down) or starts serving
Listen ==
    /\ lis = "cert"
    /\ \E failed \in BOOLEAN :
          IF failed \/ srv = "shutdown"
          THEN lis' = "done" /\ srv' = srv
          ELSE lis' = "serving" /\ srv' = "listening"
    /\ fx' = <<>>
    /\ UNCHANGED <<cfg, myIP, open, outPeers, inPeers, addrChan, shutdownChan, store,
                   peers, sup, irc, handlers, caller>>

\* lines 409-411: ListenAndServeTLS returns once the server is shut down
ListenReturns ==
    /\ lis = "serving"
    /\ srv = "shutdown"
    /\ lis' = "done"
    /\ fx' = <<>>
    /\ UNCHANGED <<cfg, myIP, open, outPeers, inPeers, addrChan, shutdownChan, store,
                   peers, sup, srv, irc, handlers, caller>>

\* p.peerNonce
peerNonce == "ours"

\* the remote sockets in use: those of the connections the handlers are
\* serving and those of the inbound peers whose connection is still up
BusyRemotes ==
    { handlers[i].remote : i \in { j \in DOMAIN handlers : handlers[j].pc # "done" } }
    \cup { k \in DOMAIN inPeers : peers[inPeers[k]].st \in {"new", "running"} }

\* the header check without the nonce test of line 337
HeaderCheckNoNonce(req, look, set) ==
    IF req.addr = Empty THEN [v |-> "upgrade", their |-> Empty]
    ELSE LET res == parsePeerAddress(req.addr, look, myIP, ListenPort)
         IN  IF res.err # "" THEN [v |-> "upgrade", their |-> Empty]
             ELSE IF existsInOutboundSet(set, ResolvedAddr(res))
                  THEN [v |-> "dup", their |-> ResolvedAddr(res)]
                  ELSE [v |-> "store", their |-> ResolvedAddr(res)]

\* the header check without the outbound-set test of line 359
HeaderCheckNoDuplicateTest(req, look, set) ==
    IF req.nonce = peerNonce THEN [v |-> "loop", their |-> Empty]
    ELSE IF req.addr = Empty THEN [v |-> "upgrade", their |-> Empty]
    ELSE LET res == parsePeerAddress(req.addr, look, myIP, ListenPort)
         IN  IF res.err # "" THEN [v |-> "upgrade", their |-> Empty]
             ELSE [v |-> "store", their |-> ResolvedAddr(res)]

\* lines 335-372 up to the store: what the handler decides from the headers
\*   "loop"     reply loop-detected        "dup"    reply too-many-requests
\*   "store"    save theirAddress next     "upgrade" go on to the upgrade
HeaderCheck(req, look, set) ==
    IF req.nonce = peerNonce THEN [v |-> "loop", their |-> Empty]
    ELSE IF req.addr = Empty THEN [v |-> "upgrade", their |-> Empty]
    ELSE LET res == parsePeerAddress(req.addr, look, myIP, ListenPort)
         IN  IF res.err # "" THEN [v |-> "upgrade", their |-> Empty]
             ELSE IF existsInOutboundSet(set, ResolvedAddr(res))
                  THEN [v |-> "dup", their |-> ResolvedAddr(res)]
                  ELSE [v |-> "store", their |-> ResolvedAddr(res)]

\* the calls the handler makes for the decision c (lines 340, 363, 368, 375)
HeaderFx(c, storeFailed, upgradeFailed) ==
    CASE c.v = "loop" -> <<Fx("WriteHeader508", Empty)>>
      [] c.v = "dup" -> <<Fx("WriteHeader429", c.their)>>
      [] OTHER ->
           (IF c.v = "store"
            THEN <<Fx(IF storeFailed THEN "StoreErr" ELSE "Store", c.their)>> ELSE <<>>)
           \o <<Fx(IF upgradeFailed THEN "UpgradeErr" ELSE "Upgrade", Empty)>>

\* The server accepts a connection and starts peerHandler on its request;
\* lines 335-379: the headers are checked, the declared address is stored and
\* the connection is upgraded (hijacked).  Up to the upgrade the handler
\* reads the outbound set once and writes the peer store once.
HandleRequest ==
    /\ srv = "listening"
    /\ \E req \in { q \in Requests : q.addr \in cfg.declared }, k \in 1..cfg.remotes,
          i \in DOMAIN handlers :
          \* the first goroutine that is free serves the connection, which
          \* comes from the first remote socket that is free
          /\ handlers[i].pc = "done"
          /\ \A j \in 1..(i - 1) : handlers[j].pc # "done"
          /\ Remotes[k] \notin BusyRemotes
          /\ \A j \in 1..(k - 1) : Remotes[j] \in BusyRemotes
          /\ \E look \in LookupAnswers(SplitHostPort(req.addr).host) :
                LET c == HeaderCheck(req, look, outPeers)
                IN  \E storeFailed \in (IF c.v = "store" THEN BOOLEAN ELSE {FALSE}),
                       upgradeFailed \in (IF c.v \in {"loop", "dup"} THEN {FALSE} ELSE BOOLEAN) :
                    /\ handlers' = [handlers EXCEPT ![i] =
                           IF c.v \in {"loop", "dup"} \/ upgradeFailed THEN Returned
                           ELSE [pc |-> "admit", remote |-> Remotes[k],
                                 peer |-> 0, their |-> c.their]]
                    /\ store' = IF c.v = "store" /\ ~storeFailed
                                THEN store \cup {c.their} ELSE store
                    /\ fx' = <<[Fx("Request", req.addr) EXCEPT !.nonce = req.nonce]>>
                               \o HeaderFx(c, storeFailed, upgradeFailed)
    /\ UNCHANGED <<cfg, myIP, open, outPeers, inPeers, addrChan, shutdownChan,
                   peers, sup, lis, srv, irc, caller>>

\* r.RemoteAddr and conn.RemoteAddr().String() of a request's connection
RequestRemoteAddr(h) == h.remote
ConnRemoteAddr(h) == h.remote

\* lines 381-387: construct the handle and admit it, or shut it down
HandleAdmit(i) ==
    /\ handlers[i].pc = "admit"
    /\ LET r == addToInboundSet(inPeers, RequestRemoteAddr(handlers[i]), NextPeer)
       IN  /\ r.ok => FreePeers # {}
           /\ inPeers' = r.set
           /\ IF r.ok
              THEN /\ peers' = [peers EXCEPT ![NextPeer] = NewPeer("in")]
                   /\ handlers' = [handlers EXCEPT ![i].pc = "run", ![i].peer = NextPeer]
                   /\ fx' = <<Fx("NewPeer", handlers[i].remote)>>
              ELSE /\ peers' = peers
                   /\ handlers' = [handlers EXCEPT ![i] = Returned]
                   /\ fx' = <<Fx("NewPeer", handlers[i].remote),
                              Fx("Shutdown", handlers[i].remote)>>
    /\ UNCHANGED <<cfg, myIP, open, outPeers, addrChan, shutdownChan, store,
                   sup, lis, srv, irc, caller>>

\* lines 389-394: register the close callback and hand the peer off
HandleRun(i) ==
    /\ handlers[i].pc = "run"
    /\ peers' = [peers EXCEPT ![handlers[i].peer] =
                     PeerRun(PeerOnClose(@, ConnRemoteAddr(handlers[i])))]
    /\ handlers' = [handlers EXCEPT ![i] = Returned]
    /\ fx' = <<Fx("Run", handlers[i].remote)>>
    /\ UNCHANGED <<cfg, myIP, open, outPeers, inPeers, addrChan, shutdownChan, store,
                   sup, lis, srv, irc, caller>>

(***************************************************************************)
(* The running peers and the IRC client.                                   *)
(***************************************************************************)
\* the connection of a running peer ends; its goroutine has yet to run the
\* close callback
PeerEnds(h) ==
    /\ peers[h].st = "running"
    /\ peers' = [peers EXCEPT ![h].st = "closing"]
    /\ fx' = <<>>
    /\ UNCHANGED <<cfg, myIP, open, outPeers, inPeers, addrChan, shutdownChan, store,
                   sup, lis, srv, irc, handlers, caller>>

\* a peer's goroutine ends (its connection has ended) and runs the close
\* callback of lines 323-325 or 391-393
PeerCloseCallback(h) ==
    /\ peers[h].st \in {"running", "closing"}
    /\ outPeers' = CallbackOut(peers[h], outPeers)
    /\ inPeers' = CallbackIn(peers[h], inPeers)
    /\ peers' = [peers EXCEPT ![h] = EndedPeer(@)]
    /\ fx' = <<>>
    /\ UNCHANGED <<cfg, myIP, open, addrChan, shutdownChan, store,
                   sup, lis, srv, irc, handlers, caller>>

\* a running peer, or the IRC client, sends an address it learned into addrChan
Gossip ==
    /\ \/ irc = "running"
       \/ \E h \in DOMAIN peers : peers[h].st = "running"
    /\ Len(addrChan) < AddrChanCap
    /\ \E a \in GossipAddrs : addrChan' = Append(addrChan, a)
    /\ fx' = <<>>
    /\ UNCHANGED <<cfg, myIP, open, outPeers, inPeers, shutdownChan, store,
                   peers, sup, lis, srv, irc, handlers, caller>>

(***************************************************************************)
(* Shutdown() (lines 225-251).                                             *)
(***************************************************************************)
\* line 227
CloseShutdownChan ==
    /\ caller.pc = "none"
    /\ sup.pc # "idle"
    /\ shutdownChan' = "closed"
    /\ caller' = [caller EXCEPT !.pc = "wait"]
    /\ fx' = <<>>
    /\ UNCHANGED <<cfg, myIP, open, outPeers, inPeers, addrChan, store,
                   peers, sup, lis, srv, irc, handlers>>

\* the goroutines counted by p.wg have all returned
WaitGroupDone == sup.pc = "done" /\ lis \in {"none", "done"}

\* the peers Shutdown collects from the two sets (lines 231-245)
Snapshot(outSet, inSet) ==
    { outSet[k] : k \in DOMAIN outSet } \cup { inSet[k] : k \in DOMAIN inSet }

\* lines 228-245: p.wg.Wait(), then the snapshots of the two sets
WaitAndSnapshot ==
    /\ caller.pc = "wait"
    /\ WaitGroupDone
    /\ caller' = [pc |-> "teardown", peers |-> Snapshot(outPeers, inPeers)]
    /\ fx' = <<>>
    /\ UNCHANGED <<cfg, myIP, open, outPeers, inPeers, addrChan, shutdownChan, store,
                   peers, sup, lis, srv, irc, handlers>>

\* Peer.Shutdown: closes the connection and waits for the handle's goroutine,
\* which runs the close callback as it ends
PeerShutdown(p) ==
    CASE p.st = "new" -> [p EXCEPT !.st = "shut"]
      [] p.st \in {"running", "closing"} -> EndedPeer(p)
      [] OTHER -> p

\* lines 246-248: peer.Shutdown() on one peer of the snapshot
Teardown ==
    /\ caller.pc = "teardown"
    /\ caller.peers # {}
    /\ \E h \in caller.peers :
          LET ran == peers[h].st \in {"running", "closing"}
          IN  /\ peers' = [peers EXCEPT ![h] = PeerShutdown(@)]
              /\ outPeers' = IF ran THEN CallbackOut(peers[h], outPeers) ELSE outPeers
              /\ inPeers' = IF ran THEN CallbackIn(peers[h], inPeers) ELSE inPeers
              /\ caller' = [caller EXCEPT !.peers = @ \ {h}]
              /\ fx' = <<Fx("Shutdown", Empty)>>
    /\ UNCHANGED <<cfg, myIP, open, addrChan, shutdownChan, store,
                   sup, lis, srv, irc, handlers>>

\* lines 250-251
ShutdownReturns ==
    /\ caller.pc = "teardown"
    /\ caller.peers = {}
    /\ caller' = [caller EXCEPT !.pc = "returned"]
    /\ fx' = <<>>
    /\ UNCHANGED <<cfg, myIP, open, outPeers, inPeers, addrChan, shutdownChan, store,
                   peers, sup, lis, srv, irc, handlers>>

Next ==
    \/ Run
    \/ DetermineExternalIP
    \/ StoreExplicitPeer
    \/ Seed
    \/ DnsPush
    \/ DnsDone
    \/ StartAccept
    \/ ConnectAdmit
    \/ ConnectHandshake
    \/ Discovered
    \/ Tick
    \/ ShutdownSignal
    \/ ServerDrained
    \/ Listen
    \/ ListenReturns
    \/ HandleRequest
    \/ \E i \in DOMAIN handlers : HandleAdmit(i) \/ HandleRun(i)
    \/ \E h \in DOMAIN peers : PeerCloseCallback(h)
    \/ Gossip
    \/ CloseShutdownChan
    \/ WaitAndSnapshot
    \/ Teardown
    \/ ShutdownReturns

Spec == Init /\ [][Next]_vars

(***************************************************************************)
(* The node with the end of a peer's connection and its close callback as  *)
(* two steps, so that a connection can be made anew while the entry of the *)
(* ended one is still in its set; run for the nodes that meet one client.  *)
(***************************************************************************)
LingerInit == Init /\ cfg.remotes <= 1

LingerNext ==
    \/ Next
    \/ \E h \in DOMAIN peers : PeerEnds(h)

LingerSpec == LingerInit /\ [][LingerNext]_vars

(***************************************************************************)
(* The validator on its own: a node in its main loop, the channel holding  *)
(* one address a discovery source has sent, and the loop taking it.        *)
(***************************************************************************)
ValidatorInit ==
    /\ cfg \in ValidatorConfigs
    /\ myIP = IF cfg.ext.err THEN cfg.myExternalIP ELSE IPString(cfg.ext.ip)
    /\ open = FALSE
    /\ outPeers = EmptyMap
    /\ inPeers = EmptyMap
    /\ addrChan \in { <<a>> : a \in ValidatorInputs }
    /\ shutdownChan = "open"
    /\ store = {}
    /\ peers = [h \in 1..cfg.handles |-> NoPeer]
    /\ sup = [pc |-> "loop", running |-> TRUE, addrs |-> {},
              addr |-> Empty, peer |-> 0, dns |-> <<>>]
    /\ lis = "none"
    /\ srv = "new"
    /\ irc = "none"
    /\ handlers = [i \in 1..MaxHandlers |-> Returned]
    /\ caller = [pc |-> "none", peers |-> {}]
    /\ fx = <<Fx("Get", Empty), Fx("nil", Empty)>>

ValidatorNext == Discovered

ValidatorSpec == ValidatorInit /\ [][ValidatorNext]_vars

(***************************************************************************)
(* Properties.                                                             *)
(***************************************************************************)
\* the calls of the last step, by name
Ops == { fx[i].op : i \in DOMAIN fx }

ConnectAdmits == sup.pc = "next" /\ sup' # sup

\* C2: an outbound admission returns true iff the set is below its maximum
\* and the address is absent; a true return adds the entry for the new
\* handle, a false return leaves the set as it was, so an address admitted
\* twice keeps its first handle and the size does not change.
C2_AdmissionIffRoomAndAbsent ==
    [][ConnectAdmits =>
         LET a == fx'[1].addr
             admitted == sup'.pc = "handshake"
         IN  /\ admitted <=> /\ outboundPeerCount(outPeers) < MAX_OUTBOUND_PEER_CONNECTIONS
                              /\ ~existsInOutboundSet(outPeers, a)
             /\ admitted => /\ outPeers' = (a :> sup'.peer) @@ outPeers
                             /\ sup'.peer \notin {outPeers[k] : k \in DOMAIN outPeers}
             /\ ~admitted => outPeers' = outPeers /\ "TooMany" \in Ops']_vars

\* an address already connected was refused while the set had room
C2_Witness ==
    /\ "TooMany" \in Ops
    /\ existsInOutboundSet(outPeers, fx[1].addr)
    /\ outboundPeerCount(outPeers) < MAX_OUTBOUND_PEER_CONNECTIONS


\* C3: once Shutdown() has returned both connection sets are empty and no
\* goroutine the peer manager started (run, acceptConnections, a handler)
\* is still running or can still add an entry.
C3_StoppedAfterShutdown ==
    caller.pc = "returned" =>
        /\ outPeers = EmptyMap
        /\ inPeers = EmptyMap
        /\ sup.pc = "done"
        /\ lis \in {"none", "done"}
        /\ \A i \in DOMAIN handlers : handlers[i].pc = "done"

\* a step in which the goroutine of run() calls connectToPeers(): it goes on
\* to a connect(), or the call returns within the step
CallsConnectToPeers ==
    /\ sup.pc \in {"accept", "loop"}
    /\ sup'.pc = "next" \/ Ops' \cap {"nil", "err"} # {}

\* C4: connectToPeers() called while the outbound set holds
\* MAX_OUTBOUND_PEER_CONNECTIONS entries is a no-op: it returns nil, does
\* not query the peer store, attempts no connection and leaves both sets
\* as they were.
C4_ConnectToPeersAtCapacityNoOp ==
    [][(CallsConnectToPeers /\ outboundPeerCount(outPeers) = MAX_OUTBOUND_PEER_CONNECTIONS) =>
         /\ "nil" \in Ops'
         /\ Ops' \cap {"err", "Get", "GetErr", "NewPeer", "Connect", "ConnectErr", "TooMany"} = {}
         /\ sup'.pc = "loop"
         /\ UNCHANGED <<outPeers, inPeers, peers>>]_vars

\* the ticker has just called connectToPeers() on a full outbound set
C4_Witness ==
    /\ outboundPeerCount(outPeers) = MAX_OUTBOUND_PEER_CONNECTIONS
    /\ Ops = {"nil"}

\* a step in which peerHandler serves a request
ServesRequest == fx' # <<>> /\ fx'[1].op = "Request"

\* the handler goroutine that serves the request of the step
Serving ==
    CHOOSE i \in DOMAIN handlers :
       handlers[i].pc = "done" /\ \A j \in 1..(i - 1) : handlers[j].pc # "done"

\* a declared address every answer of the resolver validates
DeclaredValid(a) ==
    /\ a # Empty
    /\ \A look \in LookupAnswers(SplitHostPort(a).host) :
          parsePeerAddress(a, look, myIP, ListenPort).err = ""

\* its resolved form
DeclaredResolved(a) ==
    ResolvedAddr(parsePeerAddress(a, CHOOSE look \in LookupAnswers(SplitHostPort(a).host) : TRUE,
                                  myIP, ListenPort))

\* a step in which a handler asks for the admission of its new handle
HandlerAdmits(i) == handlers[i].pc = "admit" /\ handlers'[i].pc # "admit"

\* C5 as stated: a request declaring a valid address A that is a key of the
\* outbound set is refused with too-many-requests, A is not persisted and no
\* inbound entry is added; one declaring a valid address B that is not a key
\* of the outbound set has B persisted, proceeds to the upgrade and is
\* admitted if the inbound set has room.
C5_DeclaredAddressAsStated ==
    [][/\ (ServesRequest /\ fx'[1].nonce # peerNonce /\ DeclaredValid(fx'[1].addr)) =>
            LET A == DeclaredResolved(fx'[1].addr)
            IN  IF existsInOutboundSet(outPeers, A)
                THEN /\ Ops' = {"Request", "WriteHeader429"}
                     /\ UNCHANGED <<store, inPeers, peers, handlers>>
                ELSE /\ A \in store'
                     /\ Ops' \cap {"Upgrade", "UpgradeErr"} # {}
       /\ \A i \in DOMAIN handlers :
            (HandlerAdmits(i) /\ inboundPeerCount(inPeers) < MAX_INBOUND_PEER_CONNECTIONS) =>
                handlers[i].remote \in DOMAIN inPeers' /\ handlers'[i].pc = "run"]_vars

\* C5 as the code has it: the duplicate is refused as stated; otherwise B is
\* handed to the peer store (stored unless the store reports an error, which
\* is logged and ignored), the upgrade is attempted, and a request whose
\* upgrade succeeded is admitted iff the inbound set has room and holds no
\* entry under the request's remote address.
C5_DeclaredAddress ==
    [][/\ (ServesRequest /\ fx'[1].nonce # peerNonce /\ DeclaredValid(fx'[1].addr)) =>
            LET A == DeclaredResolved(fx'[1].addr)
            IN  IF existsInOutboundSet(outPeers, A)
                THEN /\ Ops' = {"Request", "WriteHeader429"}
                     /\ UNCHANGED <<store, inPeers, peers, handlers>>
                ELSE /\ Len(fx') = 3
                     /\ fx'[2].op \in {"Store", "StoreErr"} /\ fx'[2].addr = A
                     /\ store' = IF fx'[2].op = "Store" THEN store \cup {A} ELSE store
                     /\ fx'[3].op \in {"Upgrade", "UpgradeErr"}
                     /\ handlers'[Serving].pc = IF fx'[3].op = "Upgrade" THEN "admit" ELSE "done"
                     /\ UNCHANGED <<inPeers, peers>>
       /\ \A i \in DOMAIN handlers :
            HandlerAdmits(i) =>
               IF /\ inboundPeerCount(inPeers) < MAX_INBOUND_PEER_CONNECTIONS
                  /\ handlers[i].remote \notin DOMAIN inPeers
               THEN /\ handlers'[i].pc = "run"
                    /\ inPeers' = (handlers[i].remote :> handlers'[i].peer) @@ inPeers
               ELSE /\ handlers'[i].pc = "done"
                    /\ inPeers' = inPeers]_vars

\* a request declaring an address the node is connected out to was refused
C5_Witness ==
    /\ Ops = {"Request", "WriteHeader429"}
    /\ fx[1].addr = AddrA
    /\ existsInOutboundSet(outPeers, AddrA)

\* C6: a request bearing the node's own nonce is answered loop-detected
\* whatever its declared address and whatever the sets hold: nothing is
\* stored, nothing upgraded, no handle constructed, the inbound set and the
\* rest of the state are unchanged.
C6_OwnNonceRejected ==
    [][(ServesRequest /\ fx'[1].nonce = peerNonce) =>
         /\ Len(fx') = 2 /\ fx'[2].op = "WriteHeader508"
         /\ UNCHANGED <<cfg, myIP, open, outPeers, inPeers, addrChan, shutdownChan, store,
                         peers, sup, lis, srv, irc, handlers, caller>>]_vars

\* a request with the node's nonce and a valid, unknown address was refused
\* while the inbound set was empty
C6_Witness ==
    /\ fx # <<>> /\ fx[1].op = "Request" /\ fx[1].nonce = peerNonce
    /\ fx[1].addr = AddrA
    /\ AddrA \notin store
    /\ ~existsInOutboundSet(outPeers, AddrA)
    /\ inPeers = EmptyMap

\* C7: with an explicit peer configured the outbound set has at most one
\* entry, keyed by the configured address, and connect() is never called
\* on another address, whatever the intake channel and the peer store hold.
C7_ExplicitPeerOnly ==
    cfg.peer # Empty =>
        /\ DOMAIN outPeers \subseteq {cfg.peer}
        /\ sup.addrs \subseteq {cfg.peer}
        /\ sup.addr \in {Empty, cfg.peer}
        /\ \A i \in DOMAIN fx :
              fx[i].op \in {"Connect", "ConnectErr", "TooMany"} => fx[i].addr = cfg.peer

\* connected to the explicit peer, a gossiped address has just been stored
\* and connectToPeers() has returned without connecting to it
C7_Witness ==
    /\ cfg.peer # Empty
    /\ DOMAIN outPeers = {cfg.peer}
    /\ fx = <<Fx("Store", AddrB), Fx("nil", Empty)>>

\* C8: a connect(addr) that fails leaves no trace: refused admission makes
\* no handshake and changes no entry; a failed handshake removes the entry
\* just added, changes no other entry, and the handle is never run.
C8_FailedConnectLeavesNoTrace ==
    [][/\ (ConnectAdmits /\ sup'.pc # "handshake") =>
            /\ outPeers' = outPeers
            /\ peers' = peers
            /\ Ops' \cap {"Connect", "ConnectErr", "Run"} = {}
       /\ (sup.pc = "handshake" /\ "ConnectErr" \in Ops') =>
            /\ sup.addr \notin DOMAIN outPeers'
            /\ \A k \in DOMAIN outPeers \ {sup.addr} :
                  k \in DOMAIN outPeers' /\ outPeers'[k] = outPeers[k]
            /\ DOMAIN outPeers' \subseteq DOMAIN outPeers
            /\ peers'[sup.peer].st = "closed"
            /\ "Run" \notin Ops']_vars

\* the handshake with one address failed while another stayed connected
C8_Witness ==
    /\ "ConnectErr" \in Ops
    /\ fx[1].addr = AddrB
    /\ DOMAIN outPeers = {AddrA}

\* a step in which the main loop takes an item from addrChan
TakesAddress == sup.pc = "loop" /\ Len(addrChan') < Len(addrChan)

\* what parsePeerAddress may return for the item at the head of addrChan
HeadParses ==
    { parsePeerAddress(Head(addrChan), look, myIP, ListenPort) :
        look \in LookupAnswers(SplitHostPort(Head(addrChan)).host) }

\* C9: an intake item is taken for good; if it fails validation nothing is
\* stored, connectToPeers() is not called and the loop goes on; only the
\* resolved ip:port form of a validated item is stored, and the store
\* comes before the connectToPeers() it triggers.
C9_IntakeValidated ==
    [][TakesAddress =>
         /\ addrChan' = Tail(addrChan)
         /\ sup'.pc \in {"loop", "next"}
         /\ store' \ store \subseteq { ResolvedAddr(r) : r \in { q \in HeadParses : q.err = "" } }
         /\ \A a \in store' \ store :
               a.host.kind = "ip" /\ Len(a.host.ip) = 4 /\ a.sep = ":" /\ ~ParseUint16(a.port).err
         /\ (\A r \in HeadParses : r.err # "") =>
               /\ store' = store
               /\ sup' = sup
               /\ Ops' = {"Invalid"}
         /\ (sup'.pc = "next" \/ Ops' \cap {"nil", "err", "Get", "GetErr"} # {}) =>
               /\ fx'[1].op = "Store"
               /\ fx'[1].addr \in store']_vars

\* a malformed item has just been dropped and the loop is running
C9_Witness ==
    /\ fx = <<Fx("Invalid", AddrBad)>>
    /\ sup.pc = "loop"
    /\ addrChan = <<>>

\* C10: run() is past its main loop only after Shutdown() closed the
\* shutdown channel: no failure of validation, storage, connect, handshake,
\* admission, detection, seeding or the listener ends the loop.
C10_LoopEndsOnlyOnShutdown ==
    sup.pc \in {"drain", "done"} => shutdownChan = "closed" /\ caller.pc # "none"

\* the listener failed to start and a handshake has just failed, and the
\* main loop is running with the shutdown channel open
C10_Witness ==
    /\ lis = "done" /\ srv = "new"
    /\ "ConnectErr" \in Ops
    /\ sup.pc = "loop"
    /\ shutdownChan = "open"

\* the positions of run() before its main loop (lines 108-174)
Starting == {"detect", "seed", "dns", "accept"}

\* the next step of run() before its main loop
StartupStep ==
    \/ DetermineExternalIP
    \/ StoreExplicitPeer
    \/ Seed
    \/ DnsPush
    \/ DnsDone
    \/ StartAccept

\* C11: run() always gets from its startup to the main loop: at every
\* position before the loop its next step can be taken, whatever the
\* detection and the seeding answered and whatever the DNS seed and the IRC
\* client have sent into addrChan, which nothing reads before the loop.
C11_StartupNeverBlocks ==
    sup.pc \in Starting => ENABLED StartupStep

\* the address the main loop takes in a step that takes one
Taken == Head(addrChan)

\* a string host:port whose port is a decimal number below 2^16
WellFormed(a) ==
    /\ a.sep = ":"
    /\ a.host.kind # "none"
    /\ a.port # <<>>
    /\ \A i \in 1..Len(a.port) : a.port[i] \in 0..9
    /\ Len(a.port) <= 8
    /\ DigitsValue(a.port) <= 65535

\* ip lies in 127.0.0.0/8, 10.0.0.0/8, 172.16.0.0/12, 192.168.0.0/16, ::1/128,
\* fe80::/10 or fc00::/7
Reserved(ip) ==
    LET x == IPString(ip)
    IN  IF Len(x) = 4
        THEN \/ x[1] = 127
             \/ x[1] = 10
             \/ x[1] = 172 /\ x[2] \in 16..31
             \/ x[1] = 192 /\ x[2] = 168
        ELSE \/ x = [i \in 1..16 |-> IF i = 16 THEN 1 ELSE 0]
             \/ x[1] = 254 /\ x[2] \in 128..191
             \/ x[1] \in {252, 253}

\* ip with the port of a is the node's own address
Own(ip, a) == myIP # <<>> /\ IPString(ip) = myIP /\ DigitsValue(a.port) = ListenPort

\* the step drops the address it takes as invalid
Drops == fx' = <<Fx("Invalid", Taken)>> /\ store' = store /\ sup' = sup

\* the step hands the validated address r to the peer store
Accepts(r) == fx'[1].op \in {"Store", "StoreErr"} /\ fx'[1].addr = r

\* C12: a well-formed candidate whose host is an IP literal outside the
\* reserved ranges is rejected iff the node knows its external IP, the
\* candidate's IP equals it and the candidate's port equals the listen port:
\* the same IP with another port is accepted, and a node that does not know
\* its external IP rejects a candidate only for another reason.
C12_SelfGuard ==
    [][TakesAddress =>
         /\ (WellFormed(Taken) /\ Taken.host.kind = "ip" /\ ~Reserved(Taken.host.ip)) =>
               (Drops <=> (/\ myIP # <<>>
                           /\ IPString(Taken.host.ip) = myIP
                           /\ DigitsValue(Taken.port) = ListenPort))
         /\ (myIP = <<>> /\ Drops) =>
               \/ ~WellFormed(Taken)
               \/ \E look \in LookupAnswers(Taken.host) :
                     look.err \/ look.ips = <<>> \/ Reserved(look.ips[1])]_vars

\* the node's own IP with another port has just been accepted
C12_Witness ==
    /\ myIP = IpSelf
    /\ fx # <<>>
    /\ fx[1].op = "Store"
    /\ fx[1].addr = Raw(LitHost(IpSelf), <<8, 8, 3, 2>>)

\* the node's own address has just been rejected
C12_WitnessRejected ==
    /\ myIP = IpSelf
    /\ fx = <<Fx("Invalid", Raw(LitHost(Ip4In6(IpSelf)), <<0, 8, 8, 3, 1>>))>>

\* C13: a candidate is accepted iff it splits into host and port, the port
\* is a decimal number below 2^16, the host resolves to at least one IP, the
\* first IP with the port is not the node's own address and the first IP is
\* in none of the seven reserved ranges; what is accepted is the text of the
\* first resolved IP with the port as given; the other IPs are not examined.
C13_ValidatorAccepts ==
    [][TakesAddress =>
         \E look \in LookupAnswers(Taken.host) :
            IF /\ WellFormed(Taken)
               /\ ~look.err
               /\ look.ips # <<>>
               /\ ~Own(look.ips[1], Taken)
               /\ ~Reserved(look.ips[1])
            THEN Accepts(Raw(LitHost(IPString(look.ips[1])), Taken.port))
            ELSE Drops]_vars

\* a name whose first IP is public and whose second is private has just been
\* accepted as its first IP (no input is that IP as a literal)
C13_Witness ==
    /\ fx # <<>>
    /\ fx[1].op = "Store"
    /\ fx[1].addr = AddrA
    /\ AddrA \notin ValidatorInputs

\* C14: once the external IP has been queried, the open flag is true iff the
\* query succeeded and either the configured external IP is the detected one
\* or none is configured and a local interface address has the detected
\* IP's text; a failed query or a failed enumeration leaves the flag false,
\* and run() goes on.
C14_OpenFlag ==
    /\ sup.pc = "detect" => ~open /\ ENABLED DetermineExternalIP
    /\ sup.pc \notin {"idle", "detect"} =>
          (open <=>
              /\ ~cfg.ext.err
              /\ IF cfg.myExternalIP # <<>>
                 THEN cfg.myExternalIP = IPString(cfg.ext.ip)
                 ELSE /\ ~cfg.ifaces.err
                      /\ \E ip \in cfg.ifaces.ips : IPString(ip) = IPString(cfg.ext.ip))

\* a node without a configured IP is open by a local interface address and
\* runs its main loop
C14_Witness ==
    /\ open
    /\ cfg.myExternalIP = <<>>
    /\ sup.running

\* the Peer.Connect calls of the last step
ConnectCalls == { i \in DOMAIN fx : fx[i].op \in {"Connect", "ConnectErr"} }

\* C15: every Peer.Connect gets the node's external IP and listen port as
\* its advertised address iff the open flag is true, and the empty string
\* otherwise; the flag and the IP do not change after the detection of
\* startup, which precedes every connection attempt.
C15_AdvertisedAddress ==
    [][/\ \A i \in ConnectCalls' :
             /\ sup.pc = "handshake"
             /\ sup.pc' \notin {"idle", "detect"}
             /\ fx'[i].my = IF open THEN Raw(LitHost(myIP), <<8, 8, 3, 1>>) ELSE Empty
             /\ open => myIP # <<>> /\ myIP = IPString(cfg.ext.ip)
       /\ sup.pc \notin {"idle", "detect"} => open' = open /\ myIP' = myIP]_vars

\* an open node has just connected, advertising itself
C15_Witness ==
    /\ \E i \in ConnectCalls : fx[i].op = "Connect" /\ fx[i].my = AddrSelf
    /\ open

\* the inbound admission of handler i is refused: the set is full or holds
\* an entry under the request's remote socket
Refused(i) ==
    \/ inboundPeerCount(inPeers) = MAX_INBOUND_PEER_CONNECTIONS
    \/ handlers[i].remote \in DOMAIN inPeers

C18_NoDuplicatePair ==
    \A i \in DOMAIN handlers :
       (handlers[i].pc = "run" /\ handlers[i].their # Empty) =>
          ~existsInOutboundSet(outPeers, handlers[i].their)

\* a is what the validator returns: the text of an IP that is not reserved
\* and a port below 2^16, not the node's own address
Validated(a) ==
    /\ WellFormed(a)
    /\ a.host.kind = "ip"
    /\ To4(a.host.ip) \in {<<>>, a.host.ip}
    /\ ~Reserved(a.host.ip)
    /\ ~Own(a.host.ip, a)

Ends(h) == peers[h].st # "closed" /\ peers'[h].st = "closed"

\* C20: a step removes an entry from a connection set only for the handle
\* the entry holds, which ends in that step (close callback or failed
\* handshake); the entries that stay keep their handles; a handle that ends
\* with its close callback registered leaves no entry behind, the key of the
\* removal being the key of its admission.
C20_RemovalOfOwnEntryOnly ==
    [][/\ \A k \in DOMAIN outPeers \ DOMAIN outPeers' : Ends(outPeers[k])
       /\ \A k \in DOMAIN inPeers \ DOMAIN inPeers' : Ends(inPeers[k])
       /\ \A k \in DOMAIN outPeers \cap DOMAIN outPeers' : outPeers'[k] = outPeers[k]
       /\ \A k \in DOMAIN inPeers \cap DOMAIN inPeers' : inPeers'[k] = inPeers[k]
       /\ \A h \in DOMAIN peers :
             (Ends(h) /\ peers[h].cb) =>
                /\ \A k \in DOMAIN outPeers' : outPeers'[k] # h
                /\ \A k \in DOMAIN inPeers' : inPeers'[k] # h]_vars

\* a failed handshake has just removed its entry while the entry of a peer
\* whose connection has ended, its close callback due, is in the set
C20_Witness ==
    /\ "ConnectErr" \in Ops
    /\ \E k \in DOMAIN outPeers :
          peers[outPeers[k]].st = "closing" /\ peers[outPeers[k]].key = k
====
